---------------------------- MODULE Spec2Model ----------------------------
(***************************************************************************)
(* A model of nStore (src/nstore): the access session, the copy engine,    *)
(* the cache store (clean), delete, the path decomposer and the session    *)
(* pool.                                                                   *)
(*                                                                         *)
(* Strings are sequences of tokens.  A token is an indivisible piece of    *)
(* text: the separators "/" and "://", the dot names "." and "..", the     *)
(* glob wildcard "*", and plain pieces of names.  A file name made of two  *)
(* tokens (<<"ns","x">> is "nsx") has the one-token name <<"ns">> as a      *)
(* proper string prefix, which is what str.startswith sees.                *)
(*                                                                         *)
(* The local filesystem holds no symbolic links, so Path.resolve() is the  *)
(* lexical resolution against the working directory.                       *)
(***************************************************************************)
EXTENDS Integers, Sequences, FiniteSets, TLC

(***************************************************************************)
(* Strings                                                                 *)
(***************************************************************************)
SEP == "/"
SCHEMESEP == "://"

\* s.startswith(pre)
StartsWith(s, pre) ==
    /\ Len(pre) <= Len(s)
    /\ SubSeq(s, 1, Len(pre)) = pre

\* positions of the token sep in s
SepPositions(s, sep) == {i \in 1..Len(s) : s[i] = sep}

Min(S) == CHOOSE m \in S : \A n \in S : m <= n

\* s.split(sep): the list of the pieces of s between the occurrences of sep
RECURSIVE SplitOn(_, _)
SplitOn(s, sep) ==
    IF SepPositions(s, sep) = {}
    THEN <<s>>
    ELSE LET i == Min(SepPositions(s, sep))
         IN  <<SubSeq(s, 1, i - 1)>> \o SplitOn(SubSeq(s, i + 1, Len(s)), sep)

\* sep.join(parts)
RECURSIVE JoinWith(_, _)
JoinWith(parts, sep) ==
    IF Len(parts) = 0 THEN <<>>
    ELSE IF Len(parts) = 1 THEN parts[1]
    ELSE parts[1] \o <<sep>> \o JoinWith(Tail(parts), sep)

\* str.lower() on a scheme: only the scheme tokens have an upper-case form
LowerTok(t) ==
    CASE t = "S3"   -> "s3"
      [] t = "FTP"  -> "ftp"
      [] t = "FILE" -> "file"
      [] OTHER      -> t

Lower(s) == [i \in 1..Len(s) |-> LowerTok(s[i])]

FILE == <<"file">>
S3 == <<"s3">>

(***************************************************************************)
(* Path decomposer                                                         *)
(***************************************************************************)
\* _decompose(path): (protocol, path)
_decompose(path) ==
    LET parts == SplitOn(path, SCHEMESEP)
    IN  IF Len(parts) = 1
        THEN <<FILE, parts[1]>>
        ELSE <<Lower(parts[1]), parts[2]>>

\* _decomposeS3(path): (bucket, key)
_decomposeS3(path) ==
    LET paff  == _decompose(path)[2]
        parts == SplitOn(paff, SEP)
    IN  <<parts[1], JoinWith(Tail(parts), SEP)>>

(***************************************************************************)
(* pathlib                                                                 *)
(***************************************************************************)
SelectSeqNonDot(parts) == SelectSeq(parts, LAMBDA c : c # <<>> /\ c # <<".">>)

\* pathlib.PurePosixPath(s): the empty and "." components are dropped
PathOf(s) ==
    [abs   |-> Len(s) > 0 /\ s[1] = SEP,
     parts |-> SelectSeqNonDot(SplitOn(s, SEP))]

\* str(path)
StrOf(p) ==
    IF p.abs THEN <<SEP>> \o JoinWith(p.parts, SEP)
    ELSE IF p.parts = <<>> THEN <<".">>
    ELSE JoinWith(p.parts, SEP)

\* pathlib.Path(a, b): an absolute b replaces a
PathJoin(a, b) ==
    LET pa == PathOf(a)
        pb == PathOf(b)
    IN  IF pb.abs THEN pb
        ELSE [abs |-> pa.abs, parts |-> pa.parts \o pb.parts]

\* path.parent
Parent(p) ==
    IF p.parts = <<>> THEN p
    ELSE [p EXCEPT !.parts = SubSeq(p.parts, 1, Len(p.parts) - 1)]

\* the parts of the working directory of the process, /h
cwd == << <<"h">> >>

\* ".." steps removed from left to right; ".." at the root stays at the root
RECURSIVE DropDotDot(_, _)
DropDotDot(done, rest) ==
    IF rest = <<>> THEN done
    ELSE IF Head(rest) = <<"..">>
         THEN DropDotDot(IF done = <<>> THEN <<>>
                         ELSE SubSeq(done, 1, Len(done) - 1), Tail(rest))
         ELSE DropDotDot(Append(done, Head(rest)), Tail(rest))

\* path.resolve()
Resolve(p) ==
    [abs   |-> TRUE,
     parts |-> DropDotDot(<<>>, IF p.abs THEN p.parts ELSE cwd \o p.parts)]

\* the file the operating system reaches through the path string s
OsKey(s) == StrOf(Resolve(PathOf(s)))


(***************************************************************************)
(* The world the operations act on: the local filesystem (files by their   *)
(* resolved path, with their content; the directories), the remote object  *)
(* store (objects by (bucket, key)), the session pool (the idle queue and   *)
(* the number of handles the factory has built) and the remote-client      *)
(* calls made by the operation in progress.                                *)
(***************************************************************************)
\* cacheDir.name: the temporary directory /t/ns
cacheDirName == <<SEP, "t", SEP, "ns">>

NoErr == [kind |-> "none", arg |-> <<>>]
Err(kind, arg) == [kind |-> kind, arg |-> arg]
Ok(w) == [w |-> w, err |-> NoErr]
Fail(w, kind, arg) == [w |-> w, err |-> Err(kind, arg)]

\* the absolute form of a path, ".." components kept
Absolute(p) == IF p.abs THEN p ELSE [abs |-> TRUE, parts |-> cwd \o p.parts]

\* the directories the operating system walks through to reach the last
\* component of p: every proper lexical prefix, resolved
WalkedDirs(p) ==
    LET a == Absolute(p)
    IN  {StrOf(Resolve([abs |-> TRUE, parts |-> SubSeq(a.parts, 1, i)])) :
            i \in 0..(Len(a.parts) - 1)}

Traversable(w, p) == WalkedDirs(p) \subseteq w.dirs

\* path.is_file() / path.exists() / path.is_dir()
IsFile(w, p) == Traversable(w, p) /\ StrOf(Resolve(p)) \in DOMAIN w.files
IsDir(w, p) == Traversable(w, p) /\ StrOf(Resolve(p)) \in w.dirs
Exists(w, p) == IsFile(w, p) \/ IsDir(w, p)

\* path.mkdir(parents=True, exist_ok=True)
Mkdirs(w, p) ==
    LET a    == Absolute(p)
        made == WalkedDirs(p) \cup {StrOf(Resolve(a))}
    IN  IF made \cap DOMAIN w.files # {}
        THEN Fail(w, "OSError", StrOf(p))
        ELSE Ok([w EXCEPT !.dirs = w.dirs \cup made])

\* f[k] set to v, k added to the domain when it is new
Put(f, k, v) == [x \in DOMAIN f \cup {k} |-> IF x = k THEN v ELSE f[x]]
\* f without k
Drop(f, k) == [x \in DOMAIN f \ {k} |-> f[x]]

\* the content of the file at p is replaced by (or created with) content
WriteFile(w, p, content) ==
    IF ~Traversable(w, p) \/ StrOf(Resolve(p)) \in w.dirs
    THEN Fail(w, "OSError", StrOf(p))
    ELSE Ok([w EXCEPT !.files = Put(w.files, StrOf(Resolve(p)), content)])

\* shutil.copyfile(src, dst): it refuses to copy a file onto itself
CopyFile(w, src, dst) ==
    IF Exists(w, src) /\ Resolve(src) = Resolve(dst)
    THEN Fail(w, "SameFileError", StrOf(src))
    ELSE IF ~IsFile(w, src)
    THEN Fail(w, "OSError", StrOf(src))
    ELSE WriteFile(w, dst, w.files[StrOf(Resolve(src))])

(***************************************************************************)
(* Session pool (pool.py)                                                  *)
(***************************************************************************)
\* the pool size the pool is built with
max_size == 2

\* ObjectPool.get, line 17: the two queue calls of the condition, and the
\* condition under which a handle is built before the take
QsizeBelowMax(queue) == Len(queue) < max_size
QueueEmpty(queue) == queue = <<>>
PoolWouldCreate(queue) == QsizeBelowMax(queue) /\ QueueEmpty(queue)

\* a queue.get() that hands out the head and leaves it in the queue
QueueGetPeek(queue) == [h |-> Head(queue), rest |-> queue]

\* queue.get() on a queue that is not empty: the head leaves the queue
QueueGet(queue) == [h |-> Head(queue), rest |-> Tail(queue)]

\* a call of ObjectPool.get that no other thread interleaves with: the
\* handle built (when one is) is queued and the head of the queue is taken
PoolGet(w) ==
    LET made == PoolWouldCreate(w.idle)
        q    == IF made THEN Append(w.idle, w.created + 1) ELSE w.idle
    IN  [w |-> [w EXCEPT !.idle = QueueGet(q).rest,
                         !.created = IF made THEN @ + 1 ELSE @],
         h |-> QueueGet(q).h]

\* ObjectPool.put
PoolPut(w, h) == [w EXCEPT !.idle = Append(@, h)]

(***************************************************************************)
(* Remote client calls.  A call is logged with the bucket, the key, the    *)
(* ExtraArgs it was given and whether it ran on a pooled client.           *)
(***************************************************************************)
Call(op, bucket, key, extra, pooled) ==
    [op |-> op, bucket |-> bucket, key |-> key, extra |-> extra, pooled |-> pooled]

Logged(w, c) == [w EXCEPT !.calls = Append(@, c)]

\* the remote client refuses an empty bucket name or key before any request
ValidObject(bucket, key) == bucket # <<>> /\ key # <<>>

\* s3.Object(bucket, key).upload_file(srcfpath, ExtraArgs=extra)
UploadFile(w, bucket, key, srcfpath, extra, pooled) ==
    IF ~ValidObject(bucket, key)
    THEN Fail(w, "ParamValidationError", bucket)
    ELSE IF ~IsFile(w, PathOf(srcfpath))
    THEN Fail(w, "OSError", srcfpath)
    ELSE Ok([Logged(w, Call("put", bucket, key, extra, pooled))
                EXCEPT !.remote = Put(w.remote, <<bucket, key>>, w.files[OsKey(srcfpath)])])

\* s3.Object(bucket, key).download_file(dst, ExtraArgs=extra)
DownloadFile(w, bucket, key, dst, extra, pooled) ==
    IF ~ValidObject(bucket, key)
    THEN Fail(w, "ParamValidationError", bucket)
    ELSE IF <<bucket, key>> \notin DOMAIN w.remote
    THEN Fail(Logged(w, Call("get", bucket, key, extra, pooled)), "ClientError", key)
    ELSE WriteFile(Logged(w, Call("get", bucket, key, extra, pooled)),
                   PathOf(dst), w.remote[<<bucket, key>>])

\* s3.Object(bucket, key).delete(); deleting a missing key succeeds
DeleteObject(w, bucket, key, pooled) ==
    IF ~ValidObject(bucket, key)
    THEN Fail(w, "ParamValidationError", bucket)
    ELSE Ok([Logged(w, Call("del", bucket, key, <<>>, pooled))
                EXCEPT !.remote = Drop(w.remote, <<bucket, key>>)])

\* a pool.get without the finally: the handle goes back only when the body
\* did not raise
ReleasedUnlessRaised(r, h) ==
    IF r.err = NoErr THEN [r EXCEPT !.w = PoolPut(r.w, h)] ELSE r

\* pool.get (lines 25-31): r is the result of the body run on the handle h
\* borrowed by "with pool.get(_s3_pool) as s3"; the handle goes back
\* whatever the result
Released(r, h) == [r EXCEPT !.w = PoolPut(r.w, h)]

(***************************************************************************)
(* Cache store: clean                                                      *)
(***************************************************************************)
\* path.relative_to(base) is defined when base is a prefix of p by whole
\* components
IsRelativeTo(p, base) ==
    /\ p.abs = base.abs
    /\ Len(base.parts) <= Len(p.parts)
    /\ SubSeq(p.parts, 1, Len(base.parts)) = base.parts

RelativeTo(p, base) ==
    [abs |-> FALSE, parts |-> SubSeq(p.parts, Len(base.parts) + 1, Len(p.parts))]

CacheRoot == PathOf(cacheDirName)

\* fnmatch of one path component: the wildcard matches any name
MatchPart(pat, name) == pat = <<"*">> \/ pat = name

\* whether the parts rel, relative to the cache directory, are selected by
\* pathlib.Path(cacheDir.name).glob(pattern)
PartsMatch(rel, pattern) ==
    /\ Len(rel) = Len(pattern.parts)
    /\ \A i \in 1..Len(rel) : MatchPart(pattern.parts[i], rel[i])

\* whether the entry with the resolved path string e is selected
GlobMatches(e, pattern) ==
    /\ IsRelativeTo(PathOf(e), CacheRoot)
    /\ PartsMatch(RelativeTo(PathOf(e), CacheRoot).parts, pattern)

\* whether the entry e lies in the directory tree d (d itself included)
InTree(e, d) == IsRelativeTo(PathOf(e), PathOf(d))

\* whether the loop of clean (lines 174-180) removes the entry e: a matched
\* file is unlinked, a matched directory goes with everything below it
Removed(w, e, pattern) ==
    \/ e \in DOMAIN w.files /\ GlobMatches(e, pattern)
    \/ \E d \in w.dirs : GlobMatches(d, pattern) /\ InTree(e, d)

RemoveMatches(w, pattern) ==
    [w EXCEPT !.files = [e \in {x \in DOMAIN w.files : ~Removed(w, x, pattern)} |-> w.files[e]],
              !.dirs  = {d \in w.dirs : ~Removed(w, d, pattern)}]

\* the pattern with the cache directory put in front (lines 162-163)
CleanPattern(patt) ==
    IF ~StartsWith(patt, cacheDirName)
    THEN StrOf(PathJoin(cacheDirName, patt))
    ELSE patt

\* the guard of clean (line 167): the resolved pattern, as a string, starts
\* with the name of the cache directory
InCacheCheck(pattP) == StartsWith(StrOf(pattP), cacheDirName)

\* clean from line 167 on, pattP being the resolved pattern.  relative_to
\* raises ValueError for a path that is not below the cache directory, and
\* glob raises IndexError for the empty relative pattern "."
CleanResolved(w, pattP) ==
    IF ~InCacheCheck(pattP)
    THEN Fail(w, "InvalidAccessError", StrOf(pattP))
    ELSE IF ~IsRelativeTo(pattP, CacheRoot)
    THEN Fail(w, "ValueError", StrOf(pattP))
    ELSE IF RelativeTo(pattP, CacheRoot).parts = <<>>
    THEN Fail(w, "IndexError", StrOf(pattP))
    ELSE Ok(RemoveMatches(w, RelativeTo(pattP, CacheRoot)))

\* clean(path)
Clean(w, path) ==
    CleanResolved(w, Resolve(PathOf(CleanPattern(_decompose(path)[2]))))

(***************************************************************************)
(* Copy engine                                                             *)
(***************************************************************************)
\* the default value of the parameter extra, and a caller's ExtraArgs
NoExtra == <<"{}">>
RequesterPays == <<"RequesterPays">>

\* an _isDupe that compares the two path strings only
_isDupeExact(srcprotocol, srcfpath, dstprotocol, dstfpath) ==
    srcprotocol = dstprotocol /\ srcfpath = dstfpath

\* _isDupe
_isDupe(srcprotocol, srcfpath, dstprotocol, dstfpath) ==
    \/ srcprotocol = dstprotocol /\ srcfpath = dstfpath
    \/ /\ srcprotocol = dstprotocol
       /\ dstprotocol = FILE
       /\ Resolve(PathOf(srcfpath)) = Resolve(PathOf(dstfpath))

\* the body of "with pool.get(_s3_pool) as s3" of the upload, g being what
\* ObjectPool.get returned
UploadPooled(g, bk, srcfpath, extra) ==
    Released(UploadFile(g.w, bk[1], bk[2], srcfpath, extra, TRUE), g.h)

\* the upload branch of copy (lines 114-120), bk being (bucket, key)
Upload(w, bk, srcfpath, extra, usepool) ==
    IF usepool
    THEN UploadPooled(PoolGet(w), bk, srcfpath, extra)
    ELSE UploadFile(w, bk[1], bk[2], srcfpath, extra, FALSE)

DownloadPooled(g, bk, tmpdst, extra) ==
    Released(DownloadFile(g.w, bk[1], bk[2], tmpdst, extra, TRUE), g.h)

\* a ClientError of the remote client is raised again as an S3Error
\* (lines 140-141)
AsS3Error(r, srcfpath) ==
    IF r.err.kind = "ClientError"
    THEN [r EXCEPT !.err = Err("S3Error", srcfpath)]
    ELSE r

\* the download branch of copy (lines 131-141), bk being (bucket, key)
Download(w, bk, srcfpath, tmpdst, extra, usepool) ==
    AsS3Error(IF usepool
              THEN DownloadPooled(PoolGet(w), bk, tmpdst, extra)
              ELSE DownloadFile(w, bk[1], bk[2], tmpdst, extra, FALSE),
              srcfpath)

\* the temporary path of copy for a source that is not local (lines 124-127)
TmpDst(dstfpath) ==
    IF StartsWith(dstfpath, cacheDirName)
    THEN PathOf(dstfpath)
    ELSE PathJoin(cacheDirName, dstfpath)

\* copy for a local source and a destination that is neither local nor s3:
\* the if of line 110 has no else, nothing is done and nothing is raised
CopyLocalToOther(w, dstprotocol) == Ok(w)

\* the protocol that the UnsupportedProtocolError of copy names (line 146)
NamedProtocol(srcprotocol, dstprotocol) == dstprotocol

RECURSIVE Copy(_, _, _, _, _)

\* copy, lines 111-112, m being the result of the mkdir
CopyFileMade(m, srcfpath, dstfpath) ==
    IF m.err # NoErr THEN m
    ELSE CopyFile(m.w, PathOf(srcfpath), PathOf(dstfpath))

\* copy, lines 109-120: the source is local
CopyFromLocal(w, srcfpath, dstprotocol, dstfpath, extra, usepool) ==
    IF dstprotocol = FILE
    THEN CopyFileMade(Mkdirs(w, Parent(PathOf(dstfpath))), srcfpath, dstfpath)
    ELSE IF dstprotocol = S3
    THEN Upload(w, _decomposeS3(dstfpath), srcfpath, extra, usepool)
    ELSE CopyLocalToOther(w, dstprotocol)

\* copy, lines 143-144, c being the result of the copy of line 142
CleanTmp(c, tmpdstfpath, dstfpath) ==
    IF c.err # NoErr THEN c
    ELSE IF StrOf(tmpdstfpath) # dstfpath
    THEN Clean(c.w, StrOf(tmpdstfpath))
    ELSE Ok(c.w)

\* copy, lines 142-144, d being the result of the download: the second
\* copy is called without extra and usepool, which take their defaults
SendOn(d, tmpdstfpath, dstfpath, dstpath) ==
    IF d.err # NoErr THEN d
    ELSE CleanTmp(Copy(d.w, StrOf(tmpdstfpath), dstpath, NoExtra, TRUE),
                  tmpdstfpath, dstfpath)

\* copy, lines 130-146, m being the result of the mkdir of line 128
CopyFromOtherMade(m, srcprotocol, srcfpath, dstprotocol, dstfpath, dstpath, tmpdstfpath, extra, usepool) ==
    IF m.err # NoErr THEN m
    ELSE IF srcprotocol = S3
    THEN SendOn(Download(m.w, _decomposeS3(srcfpath), srcfpath,
                         StrOf(tmpdstfpath), extra, usepool),
                tmpdstfpath, dstfpath, dstpath)
    ELSE Fail(m.w, "UnsupportedProtocolError",
              NamedProtocol(srcprotocol, dstprotocol))

\* copy, lines 121-146: the source is not local
CopyFromOther(w, srcprotocol, srcfpath, dstprotocol, dstfpath, dstpath, tmpdstfpath, extra, usepool) ==
    CopyFromOtherMade(Mkdirs(w, Parent(tmpdstfpath)), srcprotocol, srcfpath,
                      dstprotocol, dstfpath, dstpath, tmpdstfpath, extra, usepool)

\* copy after the two paths are decomposed (lines 97-146)
CopyParts(w, srcprotocol, srcfpath, dstprotocol, dstfpath, dstpath, extra, usepool) ==
    IF _isDupe(srcprotocol, srcfpath, dstprotocol, dstfpath)
    THEN Ok(w)
    ELSE IF srcprotocol = FILE
    THEN CopyFromLocal(w, srcfpath, dstprotocol, dstfpath, extra, usepool)
    ELSE CopyFromOther(w, srcprotocol, srcfpath, dstprotocol, dstfpath, dstpath,
                       TmpDst(dstfpath), extra, usepool)

\* copy(srcpath, dstpath, extra, usepool)
Copy(w, srcpath, dstpath, extra, usepool) ==
    CopyParts(w, _decompose(srcpath)[1], _decompose(srcpath)[2],
              _decompose(dstpath)[1], _decompose(dstpath)[2], dstpath,
              extra, usepool)

(***************************************************************************)
(* Delete                                                                  *)
(***************************************************************************)
\* pathlib.Path(fpath).unlink()
Unlink(w, p) ==
    IF ~IsFile(w, p)
    THEN Fail(w, "OSError", StrOf(p))
    ELSE Ok([w EXCEPT !.files = Drop(w.files, StrOf(Resolve(p)))])

\* any exception of the body is raised again as a DeleteError (lines 191,
\* 201)
AsDeleteError(r, path) ==
    IF r.err = NoErr THEN r ELSE [r EXCEPT !.err = Err("DeleteError", path)]

DeleteObjectPooled(g, bk) == Released(DeleteObject(g.w, bk[1], bk[2], TRUE), g.h)

\* delete after the path is decomposed (lines 188-204)
DeleteParts(w, path, protocol, fpath, usepool) ==
    IF protocol = FILE
    THEN AsDeleteError(Unlink(w, PathOf(fpath)), path)
    ELSE IF protocol = S3
    THEN AsDeleteError(IF usepool
                       THEN DeleteObjectPooled(PoolGet(w), _decomposeS3(fpath))
                       ELSE DeleteObject(w, _decomposeS3(fpath)[1],
                                         _decomposeS3(fpath)[2], FALSE),
                       path)
    ELSE Fail(w, "UnsupportedProtocolError", protocol)

\* delete(path, usepool)
Delete(w, path, usepool) ==
    DeleteParts(w, path, _decompose(path)[1], _decompose(path)[2], usepool)

(***************************************************************************)
(* Access session: the pieces of access                                    *)
(***************************************************************************)
READMODES == {"r", "rb", "rt"}
WRITEMODES == {"w", "wb", "wt"}
APPENDMODES == {"a", "ab", "at"}
supportedmodes == READMODES \cup WRITEMODES \cup APPENDMODES

\* _hashFile(path): "0" for a missing file, else the digest of the content;
\* the digest is taken to be free of collisions
_hashFile(w, p) ==
    IF IsFile(w, p)
    THEN <<"sha256", w.files[StrOf(Resolve(p))]>>
    ELSE <<"0", <<>>>>

\* the hash variables of access before they are assigned
NoHash == <<"unset", <<>>>>

\* a _localize that fetches for the write modes too
NeedsFetchUnlessReused(w, cachedpath, usecache, mode) ==
    ~(usecache /\ Exists(w, cachedpath) /\ mode \notin WRITEMODES)

\* a _localize that fetches whatever the cache holds
NeedsFetchAlways(w, cachedpath, usecache, mode) == mode \notin WRITEMODES

\* the condition of _localize (line 225) under which the source is copied
\* to the staged path
NeedsFetch(w, cachedpath, usecache, mode) ==
    (mode \notin WRITEMODES) /\ ~(usecache /\ Exists(w, cachedpath))

\* the staged path of _localize (line 223)
CachedPath(fpath) == PathJoin(cacheDirName, fpath)

\* what _localize returns for a path that is not local (line 228), r being
\* the result of the fetch
Staged(r, cachedpath) ==
    [w |-> r.w, err |-> r.err, localpath |-> cachedpath, isCached |-> TRUE]

\* _localize after the path is decomposed (lines 220-228)
LocalizeParts(w, path, protocol, fpath, usecache, mode, usepool, extra) ==
    IF protocol = FILE
    THEN [w |-> w, err |-> NoErr,
          localpath |-> Resolve(PathOf(fpath)), isCached |-> FALSE]
    ELSE Staged(IF NeedsFetch(w, CachedPath(fpath), usecache, mode)
                THEN Copy(w, path, StrOf(CachedPath(fpath)), extra, usepool)
                ELSE Ok(w),
                CachedPath(fpath))

\* _localize(path, usecache, mode, usepool, extra): the result carries the
\* local path and whether the file was placed in the cache
_localize(w, path, usecache, mode, usepool, extra) ==
    LocalizeParts(w, path, _decompose(path)[1], _decompose(path)[2],
                  usecache, mode, usepool, extra)

\* an access that lets the update mode "r+" through
ModeSupportedLoose(mode) == mode \in supportedmodes \cup {"r+"}

\* whether access accepts the mode (line 65)
ModeSupported(mode) == mode \in supportedmodes

\* open(path, mode) as crackOpen does it for a name that carries no
\* compression suffix (the gzip branch opens, creates and truncates the
\* same way): a read needs the file, a write truncates or creates it, an
\* append creates it when it is missing
crackOpen(w, p, mode) ==
    IF mode \in WRITEMODES
    THEN WriteFile(w, p, <<>>)
    ELSE IF mode \in APPENDMODES /\ ~IsFile(w, p)
    THEN WriteFile(w, p, <<>>)
    ELSE IF IsFile(w, p) THEN Ok(w)
    ELSE Fail(w, "OSError", StrOf(p))

\* what access has done when it raises before the yield, r being the
\* failed step
NotEntered(r) ==
    [w |-> r.w, err |-> r.err, localpath |-> PathOf(<<>>), isCached |-> FALSE,
     hashbefore |-> NoHash, opened |-> FALSE]

\* access, lines 73-78: the hash before the use, then the open; m is the
\* result of the mkdir of line 71
EnterOpen(m, localpath, isCached, mode, hashbefore) ==
    IF m.err # NoErr THEN NotEntered(m)
    ELSE [NotEntered(crackOpen(m.w, localpath, mode)) EXCEPT
            !.localpath = localpath, !.isCached = isCached,
            !.hashbefore = hashbefore,
            !.opened = (crackOpen(m.w, localpath, mode).err = NoErr)]

\* the hash access takes before the yield (lines 74-75)
HashBefore(w, localpath, isCached, mode) ==
    IF isCached /\ mode \in (WRITEMODES \cup APPENDMODES)
    THEN _hashFile(w, localpath)
    ELSE NoHash

\* access, lines 69-78, m being the result of the mkdir of line 71
EnterHashed(m, localpath, isCached, mode) ==
    EnterOpen(m, localpath, isCached, mode,
              HashBefore(m.w, localpath, isCached, mode))

\* access, lines 69-78, loc being what _localize returned
EnterLocalized(loc, mode) ==
    IF loc.err # NoErr THEN NotEntered(loc)
    ELSE EnterHashed(IF mode \in WRITEMODES
                     THEN Mkdirs(loc.w, Parent(loc.localpath))
                     ELSE Ok(loc.w),
                     loc.localpath, loc.isCached, mode)

\* access up to the yield (lines 64-78)
Enter(w, path, mode, usecache, usepool, extra) ==
    IF ~ModeSupported(mode)
    THEN NotEntered(Fail(w, "UnsupportedModeError", <<mode>>))
    ELSE EnterLocalized(_localize(w, path, usecache, mode, usepool, extra), mode)

\* a with block that flushes the handle and leaves it open
CloseHandleLeak(w, localpath, buf) ==
    [w |-> IF IsFile(w, localpath)
           THEN [w EXCEPT !.files[StrOf(Resolve(localpath))] = @ \o buf]
           ELSE w,
     fopen |-> TRUE]

\* leaving the with block of crackOpen (line 77): what the caller wrote
\* through the handle reaches the file, and the handle is closed
CloseHandle(w, localpath, buf) ==
    [w |-> IF IsFile(w, localpath)
           THEN [w EXCEPT !.files[StrOf(Resolve(localpath))] = @ \o buf]
           ELSE w,
     fopen |-> FALSE]

\* whether access sends the staged file back (lines 80-82)
ShouldWriteBack(isCached, mode, hashbefore, hashafter) ==
    isCached /\ mode \in (WRITEMODES \cup APPENDMODES) /\ hashafter # hashbefore

\* the hash access takes after the use (line 81)
HashAfter(w, localpath, isCached, mode) ==
    IF isCached /\ mode \in (WRITEMODES \cup APPENDMODES)
    THEN _hashFile(w, localpath)
    ELSE NoHash

\* what the write-back step of access did: r is the result of its copy
WroteBack(r, hashafter, wb) ==
    [w |-> r.w, err |-> r.err, hashafter |-> hashafter, wb |-> wb]

\* access, lines 80-83, hashafter being the hash of line 81: the result
\* carries the hash and the number of write-back copies made
WriteBackHashed(w, path, mode, isCached, localpath, hashbefore, hashafter, extra, usepool) ==
    IF ShouldWriteBack(isCached, mode, hashbefore, hashafter)
    THEN WroteBack(Copy(w, StrOf(localpath), path, extra, usepool), hashafter, 1)
    ELSE WroteBack(Ok(w), hashafter, 0)

\* access after the with block, lines 79-83
WriteBack(w, path, mode, isCached, localpath, hashbefore, extra, usepool) ==
    WriteBackHashed(w, path, mode, isCached, localpath, hashbefore,
                    HashAfter(w, localpath, isCached, mode), extra, usepool)

\* whether access reclaims the staged file (line 84)
ShouldEvict(isCached, usecache) == isCached /\ ~usecache

\* access, lines 84-85
Evict(w, isCached, usecache, localpath) ==
    IF ShouldEvict(isCached, usecache)
    THEN Clean(w, StrOf(localpath))
    ELSE Ok(w)

(***************************************************************************)
(* Bounds and inputs                                                       *)
(***************************************************************************)
\* the longest file content, in written chunks
MaxLen == 1
\* the threads that use the session pool together
NThreads == 3
\* the longest location string given to the path decomposer, in tokens
DecLen == 4

\* the access sessions in progress: one at a time
Sessions == {1}
\* the callers that can have a session in progress at the same time
Callers == {1, 2}
Threads == 1..NThreads

\* the chunk a caller writes through a handle
Chunk == "x"

\* location strings
LocA == <<"a">>                                          \* a       (/h/a)
LocA2 == <<".", SEP, "a">>                                \* ./a     (/h/a)
LocC == <<"c">>                                          \* c       (/h/c)
LocCDot == <<SEP, "h", SEP, ".", SEP, "c">>               \* /h/./c  (/h/c)
LocUp == <<"..", SEP, "c">>                               \* ../c    (/c)
LocB == <<"b">>                                          \* b       (/h/b)
LocR1 == <<"s3", SCHEMESEP, "b", SEP, "k">>               \* s3://b/k
LocR4 == <<"s3", SCHEMESEP, "b", SEP, "j">>               \* s3://b/j
LocR2 == <<"S3", SCHEMESEP, "b", SEP, "..", SEP, "..", SEP, "o">>  \* S3://b/../../o
LocR3 == <<"s3", SCHEMESEP, SEP, "o">>                    \* s3:///o
LocF == <<"ftp", SCHEMESEP, "b", SEP, "k">>               \* ftp://b/k
LocBK == <<"b", SEP, "k">>                               \* b/k     (/h/b/k)
LocK == cacheDirName \o <<SEP, "b", SEP, "k">>            \* /t/ns/b/k

\* the inputs of the sessions specification
AccessPaths == {LocA, LocR1}
AccessModes == {"r", "wb", "at", "r+", "R"}
SessOpts == {[usepool |-> TRUE, extra |-> RequesterPays]}

\* the inputs of the paths specification
CopyLocs == {LocA, LocA2, LocR1, LocF, LocK}
DeleteLocs == {LocR1, LocF}
\* local destinations of a download: relative, absolute, leaving the working
\* directory, and one named like the bucket
DownloadDsts == {LocC, LocCDot, LocUp, LocB}

\* the inputs of the escape specification
EscapePaths == {LocR2, LocR3}
EscapeModes == {"r", "wb"}
Opts == {[usepool |-> TRUE, extra |-> NoExtra],
         [usepool |-> FALSE, extra |-> RequesterPays]}

\* the location strings given to the path decomposer: every string of at
\* most DecLen tokens
DecTokens == {"S3", SCHEMESEP, "b", SEP}
DecStrings == UNION {[1..n -> DecTokens] : n \in 0..DecLen}

\* glob patterns given to clean
PatAll == <<"*">>                                        \* *
PatBK == <<"b", SEP, "k">>                               \* b/k
PatSibling == <<"..", SEP, "ns", "x", SEP, "f">>         \* ../nsx/f
PatEtc == <<"..", SEP, "..", SEP, "etc">>                \* ../../etc
PatAbs == <<SEP, "h", SEP, "a">>                         \* /h/a
PatRoot == <<".">>                                       \* .
CleanPatterns == {PatAll, PatBK, PatSibling, PatEtc, PatAbs, PatRoot, LocR1}

(***************************************************************************)
(* State                                                                   *)
(***************************************************************************)
VARIABLES
    files,      \* local files: resolved path string -> content
    dirs,       \* local directories: resolved path strings
    remote,     \* remote objects: <<bucket, key>> -> content
    idle,       \* the queue of the session pool
    created,    \* the handles the factory of the pool has built
    sess,       \* the access sessions: the frame of each access generator
    thr,        \* the threads using the pool: position and handle held
    warm,       \* remote paths staged by a caching read session with no
                \* write session, copy or reclaim since
    last        \* the last call or step: its arguments and what it did

vars == <<files, dirs, remote, idle, created, sess, thr, warm, last>>

IdleSess ==
    [st |-> "idle", path |-> <<>>, mode |-> "", usecache |-> FALSE,
     usepool |-> FALSE, extra |-> <<>>, localpath |-> PathOf(<<>>),
     isCached |-> FALSE, hashbefore |-> NoHash, buf |-> <<>>, fopen |-> FALSE,
     wb |-> 0]

NoLast ==
    [op |-> "init", sid |-> 0, src |-> <<>>, dst |-> <<>>, mode |-> "",
     usecache |-> FALSE, err |-> NoErr, calls |-> <<>>, same |-> TRUE,
     wasWarm |-> FALSE, wasOpen |-> FALSE, fopen |-> FALSE, isCached |-> FALSE,
     localpath |-> PathOf(<<>>), hashbefore |-> NoHash, hashafter |-> NoHash, wb |-> 0,
     prevok |-> FALSE, prevsrc |-> <<>>, prevdst |-> <<>>,
     protocol |-> <<>>, fpath |-> <<>>, wasStaged |-> FALSE,
     extra |-> <<>>, usepool |-> FALSE]

\* a thread outside the pool; fresh tells that the thread has built a handle,
\* with fewer than max_size built before, in the acquire it is in
IdleThr == [pc |-> "out", h |-> 0, fresh |-> FALSE]

World ==
    [files |-> files, dirs |-> dirs, remote |-> remote, idle |-> idle,
     created |-> created, calls |-> <<>>]

Same(w) ==
    /\ w.files = files
    /\ w.dirs = dirs
    /\ w.remote = remote
    /\ w.idle = idle
    /\ w.created = created

Commit(w) ==
    /\ files' = w.files
    /\ dirs' = w.dirs
    /\ remote' = w.remote
    /\ idle' = w.idle
    /\ created' = w.created

\* the state after import: the cache directory exists and is empty, the pool
\* has built nothing; the caller has a file /h/a, and a directory /t/nsx
\* with a file f stands beside the cache directory
Init ==
    /\ files = (<<SEP, "h", SEP, "a">> :> <<Chunk>>)
               @@ (<<SEP, "t", SEP, "ns", "x", SEP, "f">> :> <<Chunk>>)
    /\ dirs = {<<SEP>>, <<SEP, "h">>, <<SEP, "t">>, cacheDirName,
               <<SEP, "t", SEP, "ns", "x">>}
    /\ remote = << >>
    /\ idle = <<>>
    /\ created = 0
    /\ sess = [s \in Callers |-> IdleSess]
    /\ thr = [t \in Threads |-> IdleThr]
    /\ warm = {}
    /\ last = NoLast

(***************************************************************************)
(* The calls of the interface                                              *)
(***************************************************************************)
\* copy(src, dst, extra, usepool)
DoCopy(src, dst, opt) ==
    \E r \in {Copy(World, src, dst, opt.extra, opt.usepool)} :
        /\ Commit(r.w)
        /\ last' = [NoLast EXCEPT !.op = "copy", !.src = src, !.dst = dst,
                                  !.err = r.err, !.calls = r.w.calls,
                                  !.same = Same(r.w),
                                  !.extra = opt.extra, !.usepool = opt.usepool,
                                  !.prevok = (last.op = "copy" /\ last.err = NoErr),
                                  !.prevsrc = IF last.op = "copy" THEN last.src ELSE <<>>,
                                  !.prevdst = IF last.op = "copy" THEN last.dst ELSE <<>>]
        /\ warm' = {}
        /\ UNCHANGED <<sess, thr>>

\* clean(path)
DoClean(patt) ==
    \E r \in {Clean(World, patt)} :
        /\ Commit(r.w)
        /\ last' = [NoLast EXCEPT !.op = "clean", !.src = patt, !.err = r.err,
                                  !.calls = r.w.calls, !.same = Same(r.w)]
        /\ warm' = {}
        /\ UNCHANGED <<sess, thr>>

\* delete(path, usepool)
DoDelete(path, usepool) ==
    \E r \in {Delete(World, path, usepool)} :
        /\ Commit(r.w)
        /\ last' = [NoLast EXCEPT !.op = "delete", !.src = path, !.err = r.err,
                                  !.calls = r.w.calls, !.same = Same(r.w)]
        /\ UNCHANGED <<sess, thr, warm>>

\* _decompose(path), called on its own
DoDecompose(path) ==
    /\ last' = [NoLast EXCEPT !.op = "decompose", !.src = path,
                              !.protocol = _decompose(path)[1],
                              !.fpath = _decompose(path)[2]]
    /\ UNCHANGED <<files, dirs, remote, idle, created, sess, thr, warm>>

\* whether a session only reads through the cache: it leaves the staged
\* files of the cache as they are
CachingRead(mode, usecache) == mode \in READMODES /\ usecache

\* the remote paths whose staged file a later caching read can reuse, after
\* access has run up to the yield with the result r: a caching read adds the
\* path it staged, a call rejected for its mode changes nothing, any other
\* session writes or reclaims
WarmAfter(r, path, mode, usecache) ==
    IF ~ModeSupported(mode) THEN warm
    ELSE IF ~CachingRead(mode, usecache) THEN {}
    ELSE IF r.err = NoErr /\ r.isCached THEN warm \cup {path}
    ELSE warm

\* the frame of access at the yield, r being what Enter returned
Entered(r, path, mode, usecache, opt) ==
    IF r.err # NoErr THEN IdleSess
    ELSE [st |-> "open", path |-> path, mode |-> mode,
          usecache |-> usecache, usepool |-> opt.usepool,
          extra |-> opt.extra, localpath |-> r.localpath,
          isCached |-> r.isCached, hashbefore |-> r.hashbefore,
          buf |-> <<>>, fopen |-> r.opened, wb |-> 0]

\* with access(path, mode, usecache, usepool, extra) as f: up to the yield
AccessEnter(s, path, mode, usecache, opt) ==
    /\ sess[s].st = "idle"
    /\ \E r \in {Enter(World, path, mode, usecache, opt.usepool, opt.extra)} :
           /\ Commit(r.w)
           /\ sess' = [sess EXCEPT ![s] = Entered(r, path, mode, usecache, opt)]
           /\ last' = [NoLast EXCEPT !.op = "enter", !.sid = s, !.src = path,
                                     !.mode = mode, !.usecache = usecache,
                                     !.err = r.err, !.calls = r.w.calls,
                                     !.same = Same(r.w),
                                     !.wasWarm = (path \in warm),
                                     !.wasStaged = Exists(World, CachedPath(_decompose(path)[2])),
                                     !.fopen = r.opened,
                                     !.isCached = r.isCached,
                                     !.localpath = r.localpath,
                                     !.hashbefore = r.hashbefore]
           /\ warm' = WarmAfter(r, path, mode, usecache)
    /\ UNCHANGED thr

\* the length of the staged content once the handle is flushed
PendingLen(s) ==
    (IF StrOf(Resolve(sess[s].localpath)) \in DOMAIN files
     THEN Len(files[StrOf(Resolve(sess[s].localpath))]) ELSE 0) + Len(sess[s].buf)

\* the caller writes a chunk through the handle
CallerWrite(s) ==
    /\ sess[s].st = "open"
    /\ sess[s].mode \in (WRITEMODES \cup APPENDMODES)
    /\ PendingLen(s) < MaxLen
    /\ sess' = [sess EXCEPT ![s].buf = Append(@, Chunk)]
    /\ last' = [NoLast EXCEPT !.op = "write", !.sid = s, !.src = sess[s].path,
                              !.mode = sess[s].mode, !.fopen = sess[s].fopen]
    /\ UNCHANGED <<files, dirs, remote, idle, created, thr, warm>>

\* the caller's use of the handle raises: the with block of crackOpen closes
\* the handle and the exception leaves access at the yield (line 78)
CallerRaise(s) ==
    /\ sess[s].st = "open"
    /\ \E c \in {CloseHandle(World, sess[s].localpath, sess[s].buf)} :
           /\ Commit(c.w)
           /\ sess' = [sess EXCEPT ![s] = [IdleSess EXCEPT !.fopen = c.fopen]]
           /\ last' = [NoLast EXCEPT !.op = "raise", !.sid = s,
                                     !.src = sess[s].path, !.mode = sess[s].mode,
                                     !.usecache = sess[s].usecache,
                                     !.err = Err("CallerError", <<>>),
                                     !.same = Same(c.w),
                                     !.wasOpen = sess[s].fopen,
                                     !.fopen = c.fopen,
                                     !.isCached = sess[s].isCached,
                                     !.localpath = sess[s].localpath,
                                     !.hashbefore = sess[s].hashbefore,
                                     !.hashafter = HashAfter(c.w, sess[s].localpath,
                                                             sess[s].isCached, sess[s].mode)]
    /\ UNCHANGED <<thr, warm>>

\* the caller's use of the handle ends: the with block of crackOpen closes
\* the handle (line 78 is left normally)
SessClose(s) ==
    /\ sess[s].st = "open"
    /\ \E c \in {CloseHandle(World, sess[s].localpath, sess[s].buf)} :
           /\ Commit(c.w)
           /\ sess' = [sess EXCEPT ![s].st = "closed", ![s].buf = <<>>,
                                   ![s].fopen = c.fopen]
           /\ last' = [NoLast EXCEPT !.op = "close", !.sid = s,
                                     !.src = sess[s].path, !.mode = sess[s].mode,
                                     !.usecache = sess[s].usecache,
                                     !.same = Same(c.w),
                                     !.wasOpen = sess[s].fopen,
                                     !.fopen = c.fopen,
                                     !.isCached = sess[s].isCached,
                                     !.localpath = sess[s].localpath,
                                     !.hashbefore = sess[s].hashbefore]
    /\ UNCHANGED <<thr, warm>>

\* the frame of access after the write-back step, r being what WriteBack
\* returned: an error of the copy ends the generator
WrittenBack(f, r) ==
    IF r.err # NoErr THEN IdleSess
    ELSE [f EXCEPT !.st = "written", !.wb = @ + r.wb]

\* access, lines 79-83: hash again and send the file back when it changed
SessWriteBack(s) ==
    /\ sess[s].st = "closed"
    /\ \E r \in {WriteBack(World, sess[s].path, sess[s].mode, sess[s].isCached,
                           sess[s].localpath, sess[s].hashbefore,
                           sess[s].extra, sess[s].usepool)} :
           /\ Commit(r.w)
           /\ sess' = [sess EXCEPT ![s] = WrittenBack(@, r)]
           /\ last' = [NoLast EXCEPT !.op = "writeback", !.sid = s,
                                     !.src = sess[s].path, !.mode = sess[s].mode,
                                     !.usecache = sess[s].usecache,
                                     !.err = r.err, !.calls = r.w.calls,
                                     !.same = Same(r.w),
                                     !.wasOpen = sess[s].fopen,
                                     !.isCached = sess[s].isCached,
                                     !.localpath = sess[s].localpath,
                                     !.hashbefore = sess[s].hashbefore,
                                     !.hashafter = r.hashafter,
                                     !.wb = sess[s].wb + r.wb]
    /\ UNCHANGED <<thr, warm>>

\* access, lines 84-85: reclaim the staged file unless caching was asked for;
\* the generator ends
SessEvict(s) ==
    /\ sess[s].st = "written"
    /\ \E r \in {Evict(World, sess[s].isCached, sess[s].usecache, sess[s].localpath)} :
           /\ Commit(r.w)
           /\ sess' = [sess EXCEPT ![s] = IdleSess]
           /\ last' = [NoLast EXCEPT !.op = "evict", !.sid = s,
                                     !.src = sess[s].path, !.mode = sess[s].mode,
                                     !.usecache = sess[s].usecache,
                                     !.err = r.err, !.calls = r.w.calls,
                                     !.same = Same(r.w),
                                     !.wasOpen = sess[s].fopen,
                                     !.isCached = sess[s].isCached,
                                     !.localpath = sess[s].localpath,
                                     !.wb = sess[s].wb]
    /\ UNCHANGED <<thr, warm>>

\* callers that open sessions, copy, delete and reclaim
Next ==
    \/ \E s \in Sessions, path \in AccessPaths, mode \in AccessModes,
          usecache \in BOOLEAN, opt \in SessOpts :
            AccessEnter(s, path, mode, usecache, opt)
    \/ \E s \in Sessions : CallerWrite(s)
    \/ \E s \in Sessions : CallerRaise(s)
    \/ \E s \in Sessions : SessClose(s)
    \/ \E s \in Sessions : SessWriteBack(s)
    \/ \E s \in Sessions : SessEvict(s)
    \/ \E opt \in SessOpts : DoCopy(LocA, LocR1, opt)
    \/ DoClean(PatAll)
    \/ DoDelete(LocR1, TRUE)

Spec == Init /\ [][Next]_vars

\* callers that copy, delete and reclaim over many kinds of location and
\* pattern
NextPaths ==
    \/ \E src \in CopyLocs, dst \in CopyLocs, opt \in SessOpts : DoCopy(src, dst, opt)
    \/ \E patt \in CleanPatterns : DoClean(patt)
    \/ \E path \in DeleteLocs, usepool \in BOOLEAN : DoDelete(path, usepool)

SpecPaths == Init /\ [][NextPaths]_vars

\* callers that send a local file to the remote store, bring it back to
\* local destinations, copy it within the remote store, and reclaim the cache
NextRound ==
    \/ \E opt \in SessOpts : DoCopy(LocA, LocR1, opt)
    \/ \E dst \in DownloadDsts \cup {LocK}, opt \in SessOpts : DoCopy(LocR1, dst, opt)
    \/ \E opt \in Opts : DoCopy(LocR1, LocR4, opt)
    \/ DoClean(PatAll)

SpecRound == Init /\ [][NextRound]_vars

\* no access session is in progress
NoSession == \A s \in Sessions : sess[s].st = "idle"

\* one caller, one operation at a time: a copy, a delete or a reclaim starts
\* only when no session is in progress
NextSolo ==
    \/ \E s \in Sessions, mode \in AccessModes, usecache \in BOOLEAN, opt \in SessOpts :
            AccessEnter(s, LocR1, mode, usecache, opt)
    \/ \E s \in Sessions : CallerWrite(s)
    \/ \E s \in Sessions : SessClose(s)
    \/ \E s \in Sessions : SessWriteBack(s)
    \/ \E s \in Sessions : SessEvict(s)
    \/ NoSession /\ \E opt \in SessOpts : DoCopy(LocA, LocR1, opt)
    \/ NoSession /\ \E opt \in SessOpts : DoCopy(LocR1, LocBK, opt)
    \/ NoSession /\ DoClean(PatAll)
    \/ NoSession /\ DoDelete(LocR1, TRUE)

SpecSolo == Init /\ [][NextSolo]_vars

\* the remote path each caller opens its sessions on
PathOfCaller(s) == IF s = 1 THEN LocR1 ELSE LocR4

\* two callers whose sessions, each on its own remote path, overlap, beside
\* copies to and deletes of one of the objects
NextOpen ==
    \/ \E s \in Callers, mode \in {"r", "wb"}, opt \in SessOpts :
            AccessEnter(s, PathOfCaller(s), mode, FALSE, opt)
    \/ \E s \in Callers : CallerRaise(s)
    \/ \E s \in Callers : SessClose(s)
    \/ \E s \in Callers : SessWriteBack(s)
    \/ \E s \in Callers : SessEvict(s)
    \/ \E opt \in SessOpts : DoCopy(LocA, LocR1, opt)
    \/ DoDelete(LocR1, TRUE)

SpecOpen == Init /\ [][NextOpen]_vars

\* callers of the path decomposer
NextDecompose == \E path \in DecStrings : DoDecompose(path)

SpecDecompose == Init /\ [][NextDecompose]_vars

\* callers that open sessions on, and copy to, remote paths with ".."
\* components or a leading "/"
NextEscape ==
    \/ \E s \in Sessions, path \in EscapePaths, mode \in EscapeModes,
          usecache \in BOOLEAN, opt \in SessOpts :
            AccessEnter(s, path, mode, usecache, opt)
    \/ \E s \in Sessions : CallerWrite(s)
    \/ \E s \in Sessions : CallerRaise(s)
    \/ \E s \in Sessions : SessClose(s)
    \/ \E s \in Sessions : SessWriteBack(s)
    \/ \E s \in Sessions : SessEvict(s)
    \/ \E src \in {LocA, LocR1}, opt \in SessOpts : DoCopy(src, LocR2, opt)
    \/ DoClean(PatAll)

SpecEscape == Init /\ [][NextEscape]_vars

(***************************************************************************)
(* Threads on the session pool: "with pool.get(_s3_pool) as s3" run by      *)
(* several threads, one queue call at a time                               *)
(***************************************************************************)
\* ObjectPool.get, line 17, first call: self.queue.qsize() < self.max_size
TGetQsize(t) ==
    /\ thr[t].pc = "out"
    /\ thr' = [thr EXCEPT ![t].pc = IF QsizeBelowMax(idle) THEN "empty" ELSE "take"]
    /\ UNCHANGED <<files, dirs, remote, idle, created, sess, warm, last>>

\* ObjectPool.get, line 17, second call: self.queue.empty()
TGetEmpty(t) ==
    /\ thr[t].pc = "empty"
    /\ thr' = [thr EXCEPT ![t].pc = IF QueueEmpty(idle) THEN "create" ELSE "take"]
    /\ UNCHANGED <<files, dirs, remote, idle, created, sess, warm, last>>

\* ObjectPool.get, line 18: the factory builds a handle, which is queued
TGetCreate(t) ==
    /\ thr[t].pc = "create"
    /\ created' = created + 1
    /\ idle' = Append(idle, created + 1)
    /\ thr' = [thr EXCEPT ![t].pc = "take", ![t].fresh = (created < max_size)]
    /\ UNCHANGED <<files, dirs, remote, sess, warm, last>>

\* ObjectPool.get, line 19: self.queue.get() waits for a handle
TGetTake(t) ==
    /\ thr[t].pc = "take"
    /\ idle # <<>>
    /\ idle' = QueueGet(idle).rest
    /\ thr' = [thr EXCEPT ![t].pc = "held", ![t].h = QueueGet(idle).h]
    /\ UNCHANGED <<files, dirs, remote, created, sess, warm, last>>

\* pool.get, line 31: the handle goes back when the with block is left
TPut(t) ==
    /\ thr[t].pc = "held"
    /\ idle' = PoolPut([idle |-> idle], thr[t].h).idle
    /\ thr' = [thr EXCEPT ![t] = IdleThr]
    /\ UNCHANGED <<files, dirs, remote, created, sess, warm, last>>

NextPool ==
    \/ \E t \in Threads : TGetQsize(t)
    \/ \E t \in Threads : TGetEmpty(t)
    \/ \E t \in Threads : TGetCreate(t)
    \/ \E t \in Threads : TGetTake(t)
    \/ \E t \in Threads : TPut(t)

SpecPool == Init /\ [][NextPool]_vars

(***************************************************************************)
(* Properties                                                              *)
(***************************************************************************)
\* C1, as stated: on every exit of a session on a remote path in a write or
\* append mode, whether the caller's use of the handle ended normally or
\* raised, one write-back copy has been made when the hash of the staged
\* file after the use differs from the hash taken before the yield, and
\* none when the two are equal; the remote object is overwritten neither by
\* a session whose two hashes are equal nor by a read-mode session.
C1_WriteBackOnEveryExit ==
    /\ (last.op \in {"writeback", "raise"} /\ last.isCached
            /\ last.mode \in (WRITEMODES \cup APPENDMODES))
        => /\ (last.wb = 1 <=> last.hashafter # last.hashbefore)
           /\ (last.wb = 0 <=> last.hashafter = last.hashbefore)
           /\ (last.hashafter = last.hashbefore
                  => \A i \in DOMAIN last.calls : last.calls[i].op # "put")
    /\ (last.op \in {"enter", "close", "writeback", "evict", "raise"}
            /\ last.mode \in READMODES)
        => /\ last.wb = 0
           /\ \A i \in DOMAIN last.calls : last.calls[i].op # "put"

\* C2, as stated: clean never removes a file or directory outside the cache
\* directory, and a pattern that, joined to the cache directory and
\* resolved, is not strictly below the cache directory makes the call fail
\* with InvalidAccessError and leaves the filesystem as it was.
C2_CleanRefusesOutside ==
    /\ {<<SEP, "h", SEP, "a">>, <<SEP, "t", SEP, "ns", "x", SEP, "f">>}
          \subseteq DOMAIN files
    /\ {<<SEP>>, <<SEP, "h">>, <<SEP, "t">>, <<SEP, "t", SEP, "ns", "x">>}
          \subseteq dirs
    /\ (last.op = "clean"
          /\ LET p == Resolve(PathOf(CleanPattern(_decompose(last.src)[2])))
             IN  ~(IsRelativeTo(p, CacheRoot) /\ Len(p.parts) > Len(CacheRoot.parts)))
        => last.err.kind = "InvalidAccessError" /\ last.same

\* C3, as stated: the number of handles the factory has built never exceeds
\* the maximum the pool was configured with.
C3_CreatedAtMostMax == created <= max_size

\* C4, as stated: while as many handles as the maximum are checked out and
\* the queue is empty, no step builds a handle (a further acquire waits).
C4_NoCreateWhenAllOut ==
    [][(Cardinality({t \in Threads : thr[t].pc = "held"}) = max_size /\ idle = <<>>)
          => created' = created]_vars

\* C5: a read session with caching on a remote path that a caching read
\* session staged before, with no write session, copy or reclaim since,
\* makes no remote call (no get-object) and opens the staged file that is
\* there, changing nothing.
C5_CachedReadReuses ==
    (last.op = "enter" /\ last.mode \in READMODES /\ last.usecache /\ last.wasWarm)
    => /\ last.err = NoErr
       /\ \A i \in DOMAIN last.calls : last.calls[i].op # "get"
       /\ last.isCached
       /\ last.localpath = CachedPath(_decompose(last.src)[2])
       /\ last.fopen
       /\ last.same

\* C5, witness: a second caching read session on the remote path is at its
\* yield
C5_Witness ==
    /\ last.op = "enter"
    /\ last.src = LocR1
    /\ last.mode = "r"
    /\ last.usecache
    /\ last.wasWarm
    /\ last.fopen

\* C6: the handle of a session is open only between the yield and the end
\* of the caller's use; both ways out of the use, normal and by an
\* exception, close it, and the write-back and reclaim steps run with the
\* handle closed.
C6_ClosedBeforeWriteBack ==
    /\ \A s \in Sessions : sess[s].st # "open" => ~sess[s].fopen
    /\ last.op \in {"close", "raise"} => ~last.fopen
    /\ last.op \in {"writeback", "evict"} => ~last.wasOpen

\* C6, witness: the caller's use of the open handle of a session on a
\* remote path raised, and the handle is closed
C6_Witness ==
    /\ last.op = "raise"
    /\ last.isCached
    /\ last.wasOpen
    /\ ~last.fopen

\* C7: access with a mode outside r, rb, rt, w, wb, wt, a, ab, at fails
\* with UnsupportedModeError having made no remote call, taken nothing
\* from the pool and changed neither the filesystem nor the remote store;
\* no session is opened.
C7_UnsupportedModeFailsFast ==
    (last.op = "enter"
        /\ last.mode \notin {"r", "rb", "rt", "w", "wb", "wt", "a", "ab", "at"})
    => /\ last.err.kind = "UnsupportedModeError"
       /\ last.calls = <<>>
       /\ last.same
       /\ ~last.fopen
       /\ sess[last.sid].st = "idle"

\* C7, witness: access was called on the remote path with the mode "r+"
\* while the remote object was there to fetch
C7_Witness ==
    /\ last.op = "enter"
    /\ last.src = LocR1
    /\ last.mode = "r+"
    /\ last.err.kind = "UnsupportedModeError"
    /\ <<<<"b">>, <<"k">>>> \in DOMAIN remote

\* C8, as stated: the staged path of every session on a remote path lies
\* below the cache directory, and every file that access or copy has
\* created for staging lies below the cache directory.
C8_StagedUnderCacheRoot ==
    /\ \A s \in Sessions :
          (sess[s].st # "idle" /\ sess[s].isCached)
          => /\ IsRelativeTo(Resolve(sess[s].localpath), CacheRoot)
             /\ Len(Resolve(sess[s].localpath).parts) > Len(CacheRoot.parts)
    /\ \A f \in DOMAIN files :
          \/ f \in {<<SEP, "h", SEP, "a">>, <<SEP, "t", SEP, "ns", "x", SEP, "f">>}
          \/ IsRelativeTo(PathOf(f), CacheRoot)

\* C9: no handle is held by two threads at once, and a handle that is held
\* is not in the queue for another acquire to take.
C9_NoSharedHandle ==
    /\ \A t, u \in Threads :
          (t # u /\ thr[t].pc = "held" /\ thr[u].pc = "held") => thr[t].h # thr[u].h
    /\ \A t \in Threads :
          thr[t].pc = "held" => \A i \in DOMAIN idle : idle[i] # thr[t].h

\* C9, witness: two threads hold handles at once while a third handle,
\* released before, waits in the queue
C9_Witness ==
    /\ \E t, u \in Threads : t # u /\ thr[t].pc = "held" /\ thr[u].pc = "held"
    /\ idle # <<>>

\* C10, as stated: a copy between locations that are not equivalent fails
\* with an UnsupportedProtocolError that names the destination scheme when
\* the source is local and the destination scheme is neither local nor s3,
\* and one that names the source scheme when the source scheme is neither
\* local nor s3; in both cases no file and no remote object is written.
C10_UnsupportedProtocolNamed ==
    last.op = "copy" =>
        LET sp == _decompose(last.src)[1]
            dp == _decompose(last.dst)[1]
            dupe == _isDupe(sp, _decompose(last.src)[2], dp, _decompose(last.dst)[2])
        IN  /\ (~dupe /\ sp = FILE /\ dp \notin {FILE, S3})
                => /\ last.err = Err("UnsupportedProtocolError", dp)
                   /\ last.same
            /\ (~dupe /\ sp \notin {FILE, S3})
                => /\ last.err = Err("UnsupportedProtocolError", sp)
                   /\ last.calls = <<>>

\* C11: a copy whose source and destination are equivalent (the same scheme
\* and the same path string, or both local and resolving to the same file)
\* returns without error, makes no remote call and leaves the local files,
\* the cache directory, the remote store and the pool as they were.
C11_CopyOntoItselfIsNoOp ==
    (last.op = "copy"
        /\ _decompose(last.src)[1] = _decompose(last.dst)[1]
        /\ \/ _decompose(last.src)[2] = _decompose(last.dst)[2]
           \/ /\ _decompose(last.src)[1] = FILE
              /\ OsKey(_decompose(last.src)[2]) = OsKey(_decompose(last.dst)[2]))
    => /\ last.err = NoErr
       /\ last.calls = <<>>
       /\ last.same

\* C11, witness: copy was called with the two distinct strings a and ./a of
\* one existing file
C11_Witness ==
    /\ last.op = "copy"
    /\ last.src = LocA
    /\ last.dst = LocA2
    /\ last.err = NoErr
    /\ <<SEP, "h", SEP, "a">> \in DOMAIN files

\* C12, as stated: when copy(A, R) of a local file A to a remote location R
\* is followed by copy(R, B) to a local destination B, B is a file with the
\* content of A, and the temporary file of the transfer is not left in the
\* cache directory.
C12_RoundTrip ==
    (last.op = "copy" /\ last.prevok
        /\ _decompose(last.prevsrc)[1] = FILE
        /\ _decompose(last.prevdst)[1] = S3
        /\ last.src = last.prevdst
        /\ _decompose(last.dst)[1] = FILE)
    => /\ IsFile(World, PathOf(last.dst))
       /\ files[OsKey(last.dst)] = files[OsKey(last.prevsrc)]
       /\ (IsRelativeTo(Resolve(TmpDst(last.dst)), CacheRoot)
              /\ Resolve(TmpDst(last.dst)) # Resolve(PathOf(last.dst)))
           => ~IsFile(World, TmpDst(last.dst))

\* C13, as stated: _decompose splits a location string at its first "://"
\* only: the protocol is the lower-cased text before it (file when there is
\* none) and the path is all of the text after it, so that protocol + "://"
\* + path (the bare path for file) is equivalent to the string given: the
\* same protocol and the same path, or both local and the same file.
C13_DecomposeRoundTrip ==
    last.op = "decompose" =>
        LET L == last.src
            at == SepPositions(L, SCHEMESEP)
            scheme == IF at = {} THEN FILE ELSE Lower(SubSeq(L, 1, Min(at) - 1))
            path == IF at = {} THEN L ELSE SubSeq(L, Min(at) + 1, Len(L))
        IN  /\ last.protocol = scheme
            /\ \/ last.fpath = path
               \/ scheme = FILE /\ OsKey(last.fpath) = OsKey(path)

\* C14 (as amended): a session on a remote path fetches the source to the
\* staged path, before the file is opened, exactly when its mode is not a
\* write mode and it is not the case that caching is requested and a staged
\* file is already there; a write-mode session never fetches, and a read or
\* append session with caching reuses the staged file that is there.  When
\* the fetch fails nothing is opened.
C14_FetchUnlessWriteOrReuse ==
    (last.op = "enter" /\ ModeSupported(last.mode)
        /\ _decompose(last.src)[1] # FILE)
    => /\ (\E i \in DOMAIN last.calls : last.calls[i].op = "get")
            <=> (last.mode \notin WRITEMODES
                   /\ ~(last.usecache /\ last.wasStaged))
       /\ last.err # NoErr => ~last.fopen
       /\ last.err = NoErr
            => last.isCached /\ last.localpath = CachedPath(_decompose(last.src)[2])

\* C14, witness: a write-mode session without caching is at its yield with
\* no fetch made, although the remote object exists
C14_Witness ==
    /\ last.op = "enter"
    /\ last.src = LocR1
    /\ last.mode = "wb"
    /\ ~last.usecache
    /\ last.fopen
    /\ last.calls = <<>>
    /\ <<<<"b">>, <<"k">>>> \in DOMAIN remote

\* C14, as stated: a session on a remote path makes no fetch exactly when
\* caching is requested, a staged file is already there and the mode is not
\* a write mode; in every other case, the write modes included, it fetches.
C14_FetchUnlessReused ==
    (last.op = "enter" /\ ModeSupported(last.mode)
        /\ _decompose(last.src)[1] # FILE)
    => ((\A i \in DOMAIN last.calls : last.calls[i].op # "get")
            <=> (last.usecache /\ last.wasStaged /\ last.mode \notin WRITEMODES))

\* C15, as stated: when a session on a remote path without caching is over,
\* whether the caller's use of the handle ended normally or raised, the
\* staged file is no longer there; when a session with caching ends, its
\* last step leaves the staged file as it is.
C15_EvictedOnEveryExit ==
    /\ (last.op \in {"evict", "raise"} /\ last.isCached /\ ~last.usecache)
        => ~Exists(World, last.localpath)
    /\ (last.op = "evict" /\ last.isCached /\ last.usecache)
        => last.same /\ last.err = NoErr

\* C16, as stated: a thread that found the queue empty and built a handle,
\* with fewer than max_size built before, gets a handle without waiting:
\* while it is about to take from the queue, the queue is not empty.
C16_CreatorDoesNotWait ==
    \A t \in Threads :
        (thr[t].pc = "take" /\ thr[t].fresh) => idle # <<>>

\* C17, as stated: every remote-client call made for one copy call gets the
\* ExtraArgs of that call and runs on a pooled client exactly when the call
\* asked for the pool: a copy with the pool turned off borrows no pool
\* handle for any of its calls.
C17_OptionsReachEveryStep ==
    last.op = "copy" =>
        \A i \in DOMAIN last.calls :
            /\ last.calls[i].extra = last.extra
            /\ last.calls[i].pooled = last.usepool

\* C18, as stated: when a session on a remote path in a write or append mode
\* has closed normally and its write-back step is done, the remote object
\* holds the content the staged file had at the close, whatever calls came
\* before the session.
C18_RemoteHoldsWhatWasWritten ==
    (last.op = "writeback" /\ last.err = NoErr /\ last.isCached
        /\ last.mode \in (WRITEMODES \cup APPENDMODES))
    => /\ IsFile(World, last.localpath)
       /\ <<_decomposeS3(_decompose(last.src)[2])[1],
            _decomposeS3(_decompose(last.src)[2])[2]>> \in DOMAIN remote
       /\ remote[<<_decomposeS3(_decompose(last.src)[2])[1],
                   _decomposeS3(_decompose(last.src)[2])[2]>>]
              = files[StrOf(Resolve(last.localpath))]

StagedR1 == CachedPath(_decompose(LocR1)[2])

\* C20, as stated: a staged file that a caching session left in the cache
\* stays there with the same content through the start of a later session on
\* the path that does not ask for caching, through a copy from a remote
\* source and through a delete.
C20_StagedFileStays ==
    [][(/\ NoSession
        /\ IsFile(World, StagedR1)
        /\ \/ last'.op = "enter" /\ last'.src = LocR1 /\ ~last'.usecache
           \/ last'.op = "copy" /\ _decompose(last'.src)[1] # FILE
           \/ last'.op = "delete")
       => /\ StrOf(Resolve(StagedR1)) \in DOMAIN files'
          /\ files'[StrOf(Resolve(StagedR1))] = files[StrOf(Resolve(StagedR1))]]_vars
=============================================================================
